---- MODULE Spec2Model ----
(***************************************************************************)
(* Model of nitransforms/io/fsl.py: FSL linear transforms.                 *)
(*                                                                         *)
(*   FSLLinearTransform       one 4x4 affine in FSL's parameter layout     *)
(*   FSLLinearTransformArray  an ordered series of them                    *)
(*   _fsl_aff_adapt           the (swap, scale) pair of one image          *)
(*                                                                         *)
(* Three specifications share the module:                                  *)
(*   SpecFile  to_filename, step by step (open / write / close)            *)
(*   SpecText  to_string / from_string / from_fileobj                      *)
(*   SpecRas   _fsl_aff_adapt, from_ras, to_ras in exact rational          *)
(*             arithmetic                                                  *)
(***************************************************************************)
EXTENDS Integers, Sequences, FiniteSets

\* Longest series written by to_filename / rendered by to_string.
MaxXforms == 3
\* Most lines of a text blob handed to from_string.
MaxLines == 3
\* Most slabs of a stacked RAS+ array.
MaxStack == 2

\* np.eye(4): every matrix is Dim x Dim.
Dim == 4
\* '%g' prints six significant digits.
GPrecision == 6
\* '%03d' pads the index to three digits.
PadWidth == 3

VARIABLES
    pc,         \* position of the running call
    xforms,     \* FSLLinearTransformArray.xforms
    filename,   \* the argument of to_filename
    files,      \* the file system: name -> content
    handles,    \* the open file handles
    log,        \* the file operations so far, in order
    idx,        \* the loop index i of to_filename
    exc,        \* the exception that left the call, "" when none
    text,       \* the string produced by to_string / given to from_string
    pieces,     \* the lines text was assembled from (from_string inputs)
    parsed,     \* the result of from_string
    ras,        \* the stacked RAS+ input of from_ras
    moving,     \* the moving image
    reference,  \* the reference image
    adapted,    \* the result of _fsl_aff_adapt
    out         \* the result of to_ras

fileVars == <<filename, files, handles, log, idx, exc>>
textVars == <<text, pieces, parsed>>
rasVars  == <<ras, moving, reference, adapted, out>>
vars == <<pc, xforms, filename, files, handles, log, idx, exc,
          text, pieces, parsed, ras, moving, reference, adapted, out>>

RECURSIVE Pow10(_)
Pow10(k) == IF k <= 0 THEN 1 ELSE 10 * Pow10(k - 1)

Abs(x) == IF x < 0 THEN -x ELSE x

RECURSIVE NDigits(_)
\* Number of decimal digits of n >= 0 (NDigits(0) = 1).
NDigits(n) == IF n < 10 THEN 1 ELSE 1 + NDigits(n \div 10)

(***************************************************************************)
(* Numbers of the text layer: decimal values m * 10^e, kept normalised     *)
(* (m not divisible by 10; zero is m = 0, e = 0).                          *)
(***************************************************************************)
RECURSIVE Norm(_, _)
Norm(m, e) ==
    IF m = 0 THEN [m |-> 0, e |-> 0]
    ELSE IF m % 10 = 0 THEN Norm(m \div 10, e + 1)
    ELSE [m |-> m, e |-> e]

Dec(n) == Norm(n, 0)

\* Characters of a text: a printed number, a space, a tab or a newline.
SP  == [k |-> "sp",  m |-> 0, e |-> 0, sci |-> FALSE]
TAB == [k |-> "tab", m |-> 0, e |-> 0, sci |-> FALSE]
NL  == [k |-> "nl",  m |-> 0, e |-> 0, sci |-> FALSE]

IsSpace(c) == c.k \in {"sp", "tab", "nl"}

\* The value '%g' prints: m * 10^e rounded (half to even) to GPrecision
\* significant digits.
RoundSig(m, e) ==
    LET nd   == NDigits(Abs(m))
        k    == nd - GPrecision
        q    == Abs(m) \div Pow10(k)
        r    == Abs(m) % Pow10(k)
        half == Pow10(k) \div 2
        up   == r > half \/ (r = half /\ q % 2 = 1)
        q2   == IF up THEN q + 1 ELSE q
    IN  IF k <= 0 THEN Norm(m, e)
        ELSE Norm((IF m < 0 THEN -1 ELSE 1) * q2, e + k)

\* '%g' % col: the printed token; exponent notation when the decimal
\* exponent is < -4 or >= the precision.
FormatG(x) ==
    LET v == RoundSig(x.m, x.e)
        x10 == v.e + NDigits(Abs(v.m)) - 1
    IN  [k |-> "num", m |-> v.m, e |-> v.e,
         sci |-> (v.m # 0 /\ (x10 < -4 \/ x10 >= GPrecision))]

\* float(token): the value a printed token reads back as.
ParseFloat(c) == Norm(c.m, c.e)

RECURSIVE Join(_, _)
\* sep.join(parts)
Join(parts, sep) ==
    IF Len(parts) = 0 THEN <<>>
    ELSE IF Len(parts) = 1 THEN parts[1]
    ELSE parts[1] \o sep \o Join(Tail(parts), sep)

\* str.splitlines(): the lines of s, without their line breaks; a final
\* line break opens no further line.
SplitLines(s) ==
    LET brk == SelectSeq([k \in 1..Len(s) |-> k], LAMBDA k : s[k].k = "nl")
        n   == IF Len(s) = 0 THEN 0
               ELSE IF s[Len(s)].k = "nl" THEN Len(brk) ELSE Len(brk) + 1
    IN  [j \in 1..n |->
           SubSeq(s, IF j = 1 THEN 1 ELSE brk[j - 1] + 1,
                     IF j <= Len(brk) THEN brk[j] - 1 ELSE Len(s))]

\* str.strip(): s without its leading and trailing whitespace.
Strip(s) ==
    LET solid == {k \in 1..Len(s) : ~IsSpace(s[k])}
    IN  IF solid = {} THEN <<>>
        ELSE SubSeq(s, CHOOSE k \in solid : \A j \in solid : k <= j,
                       CHOOSE k \in solid : \A j \in solid : k >= j)

\* str.split(): the tokens between runs of whitespace.
SplitWs(s) == SelectSeq(s, LAMBDA c : ~IsSpace(c))

(***************************************************************************)
(* FSLLinearTransform: the text layer.                                     *)
(***************************************************************************)
Rows == 1..Dim
Cols == 1..Dim

\* The entries of a matrix, row-major.
Flat(mat) == [n \in 1..(Dim * Dim) |-> mat[((n - 1) \div Dim) + 1][((n - 1) % Dim) + 1]]

\* A transform holds structarr['parameters'], a Dim x Dim matrix.
Xfm(mat) == [parameters |-> mat]

\* Faulty variant of RowStr: prints a row's columns in reverse order.
RowStrReversed(row) == Join([c \in Cols |-> <<FormatG(row[Dim + 1 - c])>>], <<SP>>)

\* ' '.join(['%g' % col for col in row])
RowStr(row) == Join([c \in Cols |-> <<FormatG(row[c])>>], <<SP>>)

\* FSLLinearTransform.__str__: '\n'.join(lines + [''])
Str(tf) ==
    Join([r \in Rows |-> RowStr(tf.parameters[r])] \o << <<>> >>, <<NL>>)

\* FSLLinearTransform.to_string
ToString(tf) == Str(tf)

\* np.genfromtxt([string], dtype=(f8, (4, 4))): the one line handed over is
\* split on whitespace; Dim * Dim columns are required, anything else is a
\* ValueError. The values fill the matrix row-major.
GenFromTxt(string) ==
    LET toks == SplitWs(Strip(string))
    IN  IF Len(toks) # Dim * Dim
        THEN [ok |-> FALSE, val |-> <<>>]
        ELSE [ok |-> TRUE,
              val |-> [r \in Rows |->
                         [c \in Cols |-> ParseFloat(toks[Dim * (r - 1) + c])]]]

\* FSLLinearTransform.from_string
FromString(string) ==
    LET got == GenFromTxt(string)
    IN  IF got.ok THEN [ok |-> TRUE, val |-> Xfm(got.val)]
        ELSE [ok |-> FALSE, val |-> <<>>]

(***************************************************************************)
(* FSLLinearTransformArray: the text layer.                                *)
(***************************************************************************)
\* FSLLinearTransformArray.to_string: '\n\n'.join(...)
ArrayToString(xs) ==
    Join([k \in 1..Len(xs) |-> ToString(xs[k])], <<NL, NL>>)

\* The lines from_string keeps: [l.strip() for l in string.splitlines()
\* if l.strip()]
KeptLines(string) ==
    LET ls == SplitLines(string)
        stripped == [k \in 1..Len(ls) |-> Strip(ls[k])]
    IN  SelectSeq(stripped, LAMBDA l : l # <<>>)

RECURSIVE SplitBlocksFrom(_, _, _)
SplitBlocksFrom(ls, k, cur) ==
    IF k > Len(ls) THEN (IF cur = <<>> THEN <<>> ELSE <<cur>>)
    ELSE IF Strip(ls[k]) = <<>>
         THEN (IF cur = <<>> THEN <<>> ELSE <<cur>>) \o SplitBlocksFrom(ls, k + 1, <<>>)
    ELSE SplitBlocksFrom(ls, k + 1,
                         IF cur = <<>> THEN ls[k] ELSE cur \o <<NL>> \o ls[k])

\* Faulty variant of ArrayFromString: parses one transform per block of lines
\* (blocks separated by blank lines) instead of one per line.
ArrayFromStringBlocks(string) ==
    LET blocks == SplitBlocksFrom(SplitLines(string), 1, <<>>)
        each == [k \in 1..Len(blocks) |-> FromString(blocks[k])]
    IN  IF \E k \in 1..Len(each) : ~each[k].ok
        THEN [ok |-> FALSE, xforms |-> <<>>]
        ELSE [ok |-> TRUE, xforms |-> [k \in 1..Len(each) |-> each[k].val]]

\* Faulty variant of ArrayFromString: keeps the parsed transforms in reverse order.
ArrayFromStringReversed(string) ==
    LET kept == KeptLines(string)
        each == [k \in 1..Len(kept) |-> FromString(kept[Len(kept) + 1 - k])]
    IN  IF \E k \in 1..Len(each) : ~each[k].ok
        THEN [ok |-> FALSE, xforms |-> <<>>]
        ELSE [ok |-> TRUE, xforms |-> [k \in 1..Len(each) |-> each[k].val]]

\* FSLLinearTransformArray.from_string: one FSLLinearTransform.from_string
\* per kept line; the first failure leaves the call.
ArrayFromString(string) ==
    LET kept == KeptLines(string)
        each == [k \in 1..Len(kept) |-> FromString(kept[k])]
    IN  IF \E k \in 1..Len(each) : ~each[k].ok
        THEN [ok |-> FALSE, xforms |-> <<>>]
        ELSE [ok |-> TRUE, xforms |-> [k \in 1..Len(each) |-> each[k].val]]

\* FSLLinearTransformArray.from_fileobj: cls.from_string(fileobj.read())
ArrayFromFileobj(fileobj) == ArrayFromString(fileobj.content)

(***************************************************************************)
(* Inputs of the text layer.                                               *)
(***************************************************************************)
Seeds == 0..3

\* Sample parameter matrices; every position of a matrix holds a different
\* value. Seed 2 holds a fraction and a value printed in exponent notation,
\* seed 3 holds values of more than six significant digits.
Params(seed) ==
    [r \in Rows |-> [c \in Cols |->
        LET n == Dim * (r - 1) + c
        IN  CASE seed = 0 -> Dec(n)
              [] seed = 1 -> Dec(-(100 + n))
              [] seed = 2 -> (IF n = 1 THEN [m |-> 5, e |-> -1]
                              ELSE IF n = 7 THEN Dec(1000000)
                              ELSE IF n = 16 THEN Dec(0)
                              ELSE Dec(20 * n))
              [] OTHER    -> (IF n = 10 THEN Dec(1234567)
                              ELSE IF n = 11 THEN Dec(-1234565)
                              ELSE Dec(n))]]

\* Every entry prints exactly at '%g' precision.
Representable(mat) ==
    \A r \in Rows, c \in Cols : NDigits(Abs(mat[r][c].m)) <= GPrecision

SeqsUpTo(S, n) == UNION {[1..k -> S] : k \in 0..n}

SeriesInputs == SeqsUpTo({Xfm(Params(s)) : s \in Seeds}, MaxXforms)

\* Kinds of input line: a whole transform on one line, the same with
\* leading/trailing whitespace and mixed separators, an empty line, a
\* whitespace-only line, one row of a transform.
LineKinds ==
    {[kind |-> "full", seed |-> 0], [kind |-> "full", seed |-> 1],
     [kind |-> "padded", seed |-> 2], [kind |-> "blank", seed |-> 0],
     [kind |-> "ws", seed |-> 0], [kind |-> "row", seed |-> 0]}

LineText(p) ==
    LET flat == Flat(Params(p.seed))
    IN  CASE p.kind = "full" ->
               Join([n \in 1..Len(flat) |-> <<FormatG(flat[n])>>], <<SP>>)
          [] p.kind = "padded" ->
               <<SP, TAB>>
               \o Join([n \in 1..Len(flat) |-> <<FormatG(flat[n])>>], <<TAB, SP>>)
               \o <<TAB>>
          [] p.kind = "blank" -> <<>>
          [] p.kind = "ws" -> <<SP, TAB>>
          [] OTHER -> RowStr(Params(p.seed)[1])

BlobText(ps) ==
    Join([k \in 1..Len(ps.lines) |-> LineText(ps.lines[k])], <<NL>>)
    \o (IF ps.trail THEN <<NL>> ELSE <<>>)

BlobInputs ==
    {[lines |-> ls, trail |-> t] : ls \in SeqsUpTo(LineKinds, MaxLines), t \in BOOLEAN}

NoBlob == [lines |-> <<>>, trail |-> FALSE]
NoParse == [ok |-> FALSE, xforms |-> <<>>]

(***************************************************************************)
(* FSLLinearTransformArray.to_filename and the file system under it.       *)
(***************************************************************************)
RECURSIVE DecDigits(_)
\* The decimal digits of n >= 0, most significant first.
DecDigits(n) == IF n < 10 THEN <<n>> ELSE Append(DecDigits(n \div 10), n % 10)

\* Faulty variant of Fmt03d: '%d', no padding.
FmtNoPad(i) == DecDigits(i)

\* '%03d' % i: the digits of i, zero-padded on the left to PadWidth.
Fmt03d(i) ==
    LET ds == DecDigits(i)
    IN  IF Len(ds) >= PadWidth THEN ds
        ELSE [k \in 1..(PadWidth - Len(ds)) |-> 0] \o ds

\* A file name: the given path, and the digits after the '.' (none for the
\* path itself).
PlainName(path) == [base |-> path, ext |-> <<>>]

\* '%s.%03d' % (filename, i)
IndexedName(path, i) == [base |-> path, ext |-> Fmt03d(i)]

EmptyFS == [n \in {} |-> <<>>]
Put(fs, name, content) ==
    [n \in (DOMAIN fs) \cup {name} |-> IF n = name THEN content ELSE fs[n]]

Event(op, name) == [op |-> op, name |-> name]

\* open(name, 'w'): creates or truncates the file and yields a handle, or
\* raises OSError and leaves the file system alone.
OpenOk(name) ==
    /\ files' = Put(files, name, <<>>)
    /\ handles' = handles \cup {name}
    /\ log' = Append(log, Event("open", name))
    /\ exc' = exc

OpenFails(name) ==
    /\ log' = Append(log, Event("open_failed", name))
    /\ exc' = "OSError"
    /\ UNCHANGED <<files, handles>>

\* f.write(s): the file holds s, or the write raises OSError and the file
\* holds a proper prefix of s.
WriteOk(name, s) ==
    /\ files' = Put(files, name, s)
    /\ log' = Append(log, Event("write", name))
    /\ UNCHANGED <<handles, exc>>

WriteFails(name, s) ==
    /\ \E n \in {0, Len(s) \div 2} : files' = Put(files, name, SubSeq(s, 1, n))
    /\ log' = Append(log, Event("write_failed", name))
    /\ exc' = "OSError"
    /\ UNCHANGED handles

\* Leaving the with block closes the handle, exception or not.
CloseHandle(name) ==
    /\ handles' = handles \ {name}
    /\ log' = Append(log, Event("close", name))
    /\ UNCHANGED <<files, exc>>

\* Faulty variant of IsSingle: also takes the single-file branch for an empty series.
IsSingleOrEmpty(xs) == Len(xs) <= 1

\* if len(self.xforms) == 1
IsSingle(xs) == Len(xs) = 1

\* to_filename, up to its branch: self.xforms[0].to_filename(filename) for
\* a single transform, the loop otherwise. xforms[0] of an empty list is an
\* IndexError.
ToFilenameCall ==
    /\ pc = "call"
    /\ IF IsSingle(xforms)
       THEN IF Len(xforms) = 0
            THEN pc' = "raised" /\ exc' = "IndexError"
            ELSE pc' = "single_open" /\ exc' = exc
       ELSE pc' = "loop" /\ exc' = exc
    /\ UNCHANGED <<xforms, filename, files, handles, log, idx, textVars, rasVars>>

\* LinearParameters.to_filename: with open(filename, 'w') as f
SingleOpen ==
    /\ pc = "single_open"
    /\ \/ OpenOk(PlainName(filename)) /\ pc' = "single_write"
       \/ OpenFails(PlainName(filename)) /\ pc' = "raised"
    /\ UNCHANGED <<xforms, filename, idx, textVars, rasVars>>

\* LinearParameters.to_filename: f.write(self.to_string())
SingleWrite ==
    /\ pc = "single_write"
    /\ \/ WriteOk(PlainName(filename), ToString(xforms[1]))
       \/ WriteFails(PlainName(filename), ToString(xforms[1]))
    /\ pc' = "single_close"
    /\ UNCHANGED <<xforms, filename, idx, textVars, rasVars>>

\* LinearParameters.to_filename: the with block is left, then the call
\* returns (or the exception propagates).
SingleClose ==
    /\ pc = "single_close"
    /\ CloseHandle(PlainName(filename))
    /\ pc' = IF exc = "" THEN "done" ELSE "raised"
    /\ UNCHANGED <<xforms, filename, idx, textVars, rasVars>>

\* for i, xfm in enumerate(self.xforms): the file and the transform of
\* iteration idx.
LoopTarget == [name |-> IndexedName(filename, idx), xfm |-> xforms[idx + 1]]

\* with open('%s.%03d' % (filename, i), 'w') as f
LoopOpen ==
    /\ pc = "loop"
    /\ idx < Len(xforms)
    /\ \/ OpenOk(LoopTarget.name) /\ pc' = "write"
       \/ OpenFails(LoopTarget.name) /\ pc' = "raised"
    /\ UNCHANGED <<xforms, filename, idx, textVars, rasVars>>

\* f.write(xfm.to_string())
LoopWrite ==
    /\ pc = "write"
    /\ \/ WriteOk(LoopTarget.name, ToString(LoopTarget.xfm))
       \/ WriteFails(LoopTarget.name, ToString(LoopTarget.xfm))
    /\ pc' = "close"
    /\ UNCHANGED <<xforms, filename, idx, textVars, rasVars>>

\* Faulty variant of LoopClose: the handle is left open when the loop goes on.
LoopCloseLeak ==
    /\ pc = "close"
    /\ IF exc = ""
       THEN /\ pc' = "loop"
            /\ idx' = idx + 1
            /\ UNCHANGED <<handles, log, files, exc>>
       ELSE /\ CloseHandle(LoopTarget.name)
            /\ pc' = "raised"
            /\ idx' = idx
    /\ UNCHANGED <<xforms, filename, textVars, rasVars>>

\* The with block is left: the handle is closed; then the next iteration,
\* or the exception leaves the loop.
LoopClose ==
    /\ pc = "close"
    /\ CloseHandle(LoopTarget.name)
    /\ IF exc = ""
       THEN pc' = "loop" /\ idx' = idx + 1
       ELSE pc' = "raised" /\ idx' = idx
    /\ UNCHANGED <<xforms, filename, textVars, rasVars>>

\* The loop is exhausted: to_filename returns.
LoopExit ==
    /\ pc = "loop"
    /\ idx >= Len(xforms)
    /\ pc' = "done"
    /\ UNCHANGED <<xforms, fileVars, textVars, rasVars>>

Paths == {"p", "q"}

\* What the path holds before the call: nothing, or a stale file.
StaleFS(path) == Put(EmptyFS, PlainName(path), <<SP>>)

TextIdle == text = <<>> /\ pieces = NoBlob /\ parsed = NoParse
RasIdle ==
    /\ ras = <<>> /\ moving = <<>> /\ reference = <<>>
    /\ adapted = <<>> /\ out = <<>>
FileIdle ==
    /\ filename = "" /\ files = EmptyFS /\ handles = {} /\ log = <<>>
    /\ idx = 0 /\ exc = ""

InitFile ==
    /\ pc = "call"
    /\ xforms \in SeriesInputs
    /\ filename \in Paths
    /\ files \in {EmptyFS, StaleFS(filename)}
    /\ handles = {} /\ log = <<>> /\ idx = 0 /\ exc = ""
    /\ TextIdle /\ RasIdle

NextFile ==
    \/ ToFilenameCall
    \/ SingleOpen \/ SingleWrite \/ SingleClose
    \/ LoopOpen \/ LoopWrite \/ LoopClose \/ LoopExit

SpecFile == InitFile /\ [][NextFile]_vars

(***************************************************************************)
(* The text layer as a state machine: a series is rendered and read back,  *)
(* or a text blob is parsed.                                               *)
(***************************************************************************)
\* T.to_string() of the element at idx of the series.
SingleToString ==
    /\ pc = "t_series"
    /\ \E k \in 1..Len(xforms) :
          /\ idx' = k
          /\ text' = ToString(xforms[k])
    /\ pc' = "t_single_str"
    /\ UNCHANGED <<xforms, filename, files, handles, log, exc, pieces, parsed, rasVars>>

\* FSLLinearTransform.from_string(text)
SingleFromString ==
    /\ pc = "t_single_str"
    /\ LET got == FromString(text)
       IN  parsed' = [ok |-> got.ok,
                      xforms |-> IF got.ok THEN <<got.val>> ELSE <<>>]
    /\ pc' = "t_single_parsed"
    /\ UNCHANGED <<xforms, fileVars, text, pieces, rasVars>>

\* S.to_string() of the whole series.
ArrayToStringCall ==
    /\ pc = "t_series"
    /\ text' = ArrayToString(xforms)
    /\ pc' = "t_array_str"
    /\ UNCHANGED <<xforms, fileVars, pieces, parsed, rasVars>>

\* FSLLinearTransformArray.from_string(text)
ArrayFromStringCall ==
    /\ pc \in {"t_array_str", "t_blob"}
    /\ parsed' = ArrayFromString(text)
    /\ pc' = IF pc = "t_blob" THEN "t_blob_parsed" ELSE "t_array_parsed"
    /\ UNCHANGED <<xforms, fileVars, text, pieces, rasVars>>

\* FSLLinearTransformArray.from_fileobj(stream) on a stream holding text.
ArrayFromFileobjCall ==
    /\ pc = "t_blob"
    /\ parsed' = ArrayFromFileobj([content |-> text])
    /\ pc' = "t_blob_parsed"
    /\ UNCHANGED <<xforms, fileVars, text, pieces, rasVars>>

InitText ==
    /\ \/ /\ pc = "t_series"
          /\ xforms \in SeriesInputs
          /\ pieces = NoBlob
          /\ text = <<>>
       \/ /\ pc = "t_blob"
          /\ xforms = <<>>
          /\ pieces \in BlobInputs
          /\ text = BlobText(pieces)
    /\ parsed = NoParse
    /\ FileIdle /\ RasIdle

NextText ==
    \/ SingleToString \/ SingleFromString
    \/ ArrayToStringCall \/ ArrayFromStringCall \/ ArrayFromFileobjCall

SpecText == InitText /\ [][NextText]_vars

(***************************************************************************)
(* The RAS layer, in exact rational arithmetic: a matrix is n / d, n a     *)
(* Dim x Dim matrix of integers and d > 0 their common denominator, in     *)
(* lowest terms (the gcd of d and all entries of n is 1).                  *)
(***************************************************************************)
RECURSIVE GCDNat(_, _)
GCDNat(a, b) == IF b = 0 THEN a ELSE GCDNat(b, a % b)

GCD(a, b) == GCDNat(Abs(a), Abs(b))

\* The one element of a singleton set. Writing an operator's body as
\* The({e(x) : x \in {v}}) has v evaluated once.
The(S) == CHOOSE x \in S : TRUE

RECURSIVE GCDFrom(_, _, _)
\* gcd of g and the entries k.. of the flattened matrix.
GCDFrom(flat, k, g) ==
    IF k > Len(flat) \/ g = 1 THEN g ELSE GCDFrom(flat, k + 1, GCD(g, flat[k]))

\* n / d in lowest terms, d > 0.
Ratio(n, d) ==
    The({[n |-> [r \in Rows |-> [c \in Cols |-> x[3] * (x[1][r][c] \div x[4])]],
          d |-> x[3] * (x[2] \div x[4])]
         : x \in {<<n, d, IF d < 0 THEN -1 ELSE 1, GCDFrom(Flat(n), 1, Abs(d))>>}})

\* A matrix of integers, given by rows.
IntMat(rows) == [n |-> [r \in Rows |-> [c \in Cols |-> rows[r][c]]], d |-> 1]

\* np.eye(4)
Eye == [n |-> [r \in Rows |-> [c \in Cols |-> IF r = c THEN 1 ELSE 0]], d |-> 1]

\* np.diag(v) of whole numbers v
Diag(v) == [n |-> [r \in Rows |-> [c \in Cols |-> IF r = c THEN v[r] ELSE 0]], d |-> 1]

\* a.dot(b)
Dot(a, b) ==
    The({Ratio([r \in Rows |-> [c \in Cols |->
                   x[1].n[r][1] * x[2].n[1][c] + x[1].n[r][2] * x[2].n[2][c]
                   + x[1].n[r][3] * x[2].n[3][c] + x[1].n[r][4] * x[2].n[4][c]]],
               x[1].d * x[2].d)
         : x \in {<<a, b>>}})

\* m.T, and np.swapaxes(m, 0, 1) of a two-dimensional array.
Transpose(m) == The({[n |-> [r \in Rows |-> [c \in Cols |-> x.n[c][r]]], d |-> x.d] : x \in {m}})
SwapAxes01(m) == The({[n |-> [r \in Rows |-> [c \in Cols |-> x.n[c][r]]], d |-> x.d] : x \in {m}})

\* The k-th index of Rows once index skip is left out.
Skip(k, skip) == IF k < skip THEN k ELSE k + 1

\* Determinant of the 3x3 minor of the integer matrix n without row i and
\* column j.
Minor(n, i, j) ==
    The({  e[1][1] * (e[2][2] * e[3][3] - e[2][3] * e[3][2])
         - e[1][2] * (e[2][1] * e[3][3] - e[2][3] * e[3][1])
         + e[1][3] * (e[2][1] * e[3][2] - e[2][2] * e[3][1])
         : e \in {[r \in 1..(Dim - 1) |-> [c \in 1..(Dim - 1) |->
                     n[Skip(r, i)][Skip(c, j)]]]}})

\* Determinant of the integer matrix n, along its last row.
IntDet(n) ==
    - n[4][1] * Minor(n, 4, 1) + n[4][2] * Minor(n, 4, 2)
    - n[4][3] * Minor(n, 4, 3) + n[4][4] * Minor(n, 4, 4)

\* The sign of np.linalg.det(m): that of the determinant of the numerators.
DetSign(m) ==
    The({IF x > 0 THEN 1 ELSE IF x < 0 THEN -1 ELSE 0 : x \in {IntDet(m.n)}})

Singular(m) == DetSign(m) = 0

\* np.linalg.inv(m) of a non-singular m (a singular m raises LinAlgError):
\* the adjugate over the determinant.
Inv(m) ==
    The({Ratio([r \in Rows |-> [c \in Cols |->
                   x[1].d * (IF (r + c) % 2 = 0 THEN 1 ELSE -1) * Minor(x[1].n, c, r)]],
               x[2])
         : x \in {<<m, IntDet(m.n)>>}})

\* The integer square root; the images below have voxel sizes that are
\* whole numbers.
ISqrt(n) == CHOOSE k \in 0..n : k * k = n

\* nibabel.affines.voxel_sizes(aff): the norms of the columns of the top
\* left 3x3 block.
VoxelSizes(aff) ==
    [c \in 1..(Dim - 1) |->
        ISqrt(aff.n[1][c] * aff.n[1][c] + aff.n[2][c] * aff.n[2][c]
              + aff.n[3][c] * aff.n[3][c])]

\* Faulty variant of NeedsFlip: flips on a determinant of zero as well.
NeedsFlipOrZero(aff) == DetSign(aff) >= 0

\* if np.linalg.det(aff) > 0
NeedsFlip(aff) == DetSign(aff) > 0

\* _fsl_aff_adapt(space)
FslAffAdapt(space) ==
    The({[swp |-> IF NeedsFlip(sp.affine)
                  THEN [Eye EXCEPT !.n[1][1] = -1,
                                   !.n[1][4] = (sp.shape[1] - 1) * VoxelSizes(sp.affine)[1]]
                  ELSE Eye,
          spc |-> Diag([c \in Cols |->
                         IF c < Dim THEN VoxelSizes(sp.affine)[c] ELSE 1])]
         : sp \in {space}})

Raise(e) == [ok |-> FALSE, exc |-> e, val |-> <<>>]
Return(v) == [ok |-> TRUE, exc |-> "", val |-> v]

\* pre of from_ras: reference.affine . inv(refspc) . inv(refswp)
Pre(reference_) ==
    The({Dot(reference_.affine, Dot(Inv(a.spc), Inv(a.swp)))
         : a \in {FslAffAdapt(reference_)}})

\* post of from_ras: inv(movswp) . movspc . inv(moving.affine)
Post(moving_) ==
    The({Dot(Inv(a.swp), Dot(a.spc, Inv(moving_.affine)))
         : a \in {FslAffAdapt(moving_)}})

\* Faulty variant of FromRas: stores mat instead of mat.T.
FromRasNoTranspose(ras_, moving_, reference_) ==
    IF \/ Singular(FslAffAdapt(reference_).spc)
       \/ Singular(FslAffAdapt(moving_).spc)
       \/ Singular(moving_.affine)
    THEN Raise("LinAlgError")
    ELSE The({IF Singular(m) THEN Raise("LinAlgError") ELSE Return(Xfm(Inv(m)))
              : m \in {SwapAxes01(Dot(Post(moving_), Dot(ras_, Pre(reference_))))}})

\* FSLLinearTransform.from_ras(ras, moving, reference). np.linalg.inv of a
\* singular matrix raises LinAlgError; the swap matrices are never singular.
FromRas(ras_, moving_, reference_) ==
    IF \/ Singular(FslAffAdapt(reference_).spc)
       \/ Singular(FslAffAdapt(moving_).spc)
       \/ Singular(moving_.affine)
    THEN Raise("LinAlgError")
    ELSE The({IF Singular(m) THEN Raise("LinAlgError")
                 ELSE Return(Xfm(Transpose(Inv(m))))
              : m \in {SwapAxes01(Dot(Post(moving_), Dot(ras_, Pre(reference_))))}})

\* FSLLinearTransform.to_ras(moving, reference): from_ras undone, with the
\* same pre and post.
ToRas(tf, moving_, reference_) ==
    IF \/ Singular(FslAffAdapt(reference_).spc)
       \/ Singular(FslAffAdapt(moving_).spc)
       \/ Singular(moving_.affine)
       \/ Singular(reference_.affine)
       \/ Singular(tf.parameters)
    THEN Raise("LinAlgError")
    ELSE Return(Dot(Inv(Post(moving_)),
                    Dot(SwapAxes01(Inv(Transpose(tf.parameters))),
                        Inv(Pre(reference_)))))

\* The first failure among the calls of a list comprehension leaves it.
Collect(each) ==
    The({IF \E k \in 1..Len(e) : ~e[k].ok
         THEN e[CHOOSE k \in 1..Len(e) : ~e[k].ok /\ \A j \in 1..(k - 1) : e[j].ok]
         ELSE Return([k \in 1..Len(e) |-> e[k].val])
         : e \in {each}})

\* Faulty variant of ArrayFromRas: every element is built from the first slab.
ArrayFromRasFirstSlab(ras_, moving_, reference_) ==
    Collect([k \in 1..Len(ras_) |-> FromRas(ras_[1], moving_, reference_)])

\* FSLLinearTransformArray.from_ras: one FSLLinearTransform.from_ras per
\* slab ras[i, ...], i in range(ras.shape[0]).
ArrayFromRas(ras_, moving_, reference_) ==
    Collect([k \in 1..Len(ras_) |-> FromRas(ras_[k], moving_, reference_)])

\* FSLLinearTransformArray.to_ras: np.stack of the elements' to_ras;
\* np.stack of an empty list is a ValueError.
ArrayToRas(xs, moving_, reference_) ==
    LET got == Collect([k \in 1..Len(xs) |-> ToRas(xs[k], moving_, reference_)])
    IN  IF ~got.ok THEN got
        ELSE IF Len(xs) = 0 THEN Raise("ValueError")
        ELSE got

(***************************************************************************)
(* Inputs of the RAS layer.                                                *)
(***************************************************************************)
Image(rows, shape) == [affine |-> IntMat(rows), shape |-> shape]

\* Positive determinant, isotropic 2 mm voxels.
ImgLAS == Image(<< <<2, 0, 0, 0>>, <<0, 2, 0, 0>>, <<0, 0, 2, 0>>, <<0, 0, 0, 1>> >>,
                <<10, 10, 10>>)
\* Negative determinant, anisotropic voxels, an offset.
ImgRAS == Image(<< <<-2, 0, 0, 9>>, <<0, 3, 0, -5>>, <<0, 0, 1, -7>>, <<0, 0, 0, 1>> >>,
                <<5, 6, 7>>)
\* Positive determinant, oblique axes (voxel sizes 5, 5, 2).
ImgOblique == Image(<< <<3, -4, 0, 1>>, <<4, 3, 0, 2>>, <<0, 0, 2, 3>>, <<0, 0, 0, 1>> >>,
                    <<4, 4, 4>>)
\* Determinant zero, no zero voxel size.
ImgSingular == Image(<< <<2, 2, 0, 0>>, <<0, 0, 0, 0>>, <<0, 0, 1, 0>>, <<0, 0, 0, 1>> >>,
                     <<3, 3, 3>>)
\* Determinant zero, a zero voxel size.
ImgFlat == Image(<< <<1, 0, 0, 0>>, <<0, 1, 0, 0>>, <<0, 0, 0, 0>>, <<0, 0, 0, 1>> >>,
                 <<2, 2, 1>>)

Images == {ImgLAS, ImgRAS, ImgOblique, ImgSingular, ImgFlat}

RasInputs ==
    {Eye,
     IntMat(<< <<0, -1, 0, 3>>, <<1, 0, 0, -2>>, <<0, 0, 1, 5>>, <<0, 0, 0, 1>> >>),
     IntMat(<< <<2, 1, 0, 0>>, <<0, 1, 0, 1>>, <<0, 0, 1, 0>>, <<0, 0, 0, 1>> >>),
     IntMat(<< <<1, 0, 0, 0>>, <<0, 0, 0, 0>>, <<0, 0, 1, 0>>, <<0, 0, 0, 1>> >>)}

StackInputs == SeqsUpTo(RasInputs, MaxStack)

(***************************************************************************)
(* The RAS layer as a state machine.                                       *)
(***************************************************************************)
\* _fsl_aff_adapt on one of the two images.
AdaptCall ==
    /\ pc = "r_start"
    /\ \E img \in {moving, reference} :
          adapted' = [image |-> img, res |-> FslAffAdapt(img)]
    /\ pc' = "r_adapted"
    /\ UNCHANGED <<xforms, fileVars, textVars, ras, moving, reference, out>>

\* FSLLinearTransform.from_ras on the first slab.
FromRasCall ==
    /\ pc = "r_start"
    /\ Len(ras) >= 1
    /\ LET got == FromRas(ras[1], moving, reference)
       IN  IF got.ok
           THEN xforms' = <<got.val>> /\ pc' = "r_single" /\ exc' = exc
           ELSE xforms' = xforms /\ pc' = "r_single_raised" /\ exc' = got.exc
    /\ UNCHANGED <<filename, files, handles, log, idx, textVars, rasVars>>

\* FSLLinearTransform.to_ras on the transform just built.
ToRasCall ==
    /\ pc = "r_single"
    /\ LET got == ToRas(xforms[1], moving, reference)
       IN  IF got.ok
           THEN out' = got.val /\ pc' = "r_single_out" /\ exc' = exc
           ELSE out' = out /\ pc' = "r_single_raised" /\ exc' = got.exc
    /\ UNCHANGED <<xforms, filename, files, handles, log, idx, textVars,
                   ras, moving, reference, adapted>>

\* FSLLinearTransformArray.from_ras on the whole stack.
ArrayFromRasCall ==
    /\ pc = "r_start"
    /\ LET got == ArrayFromRas(ras, moving, reference)
       IN  IF got.ok
           THEN xforms' = got.val /\ pc' = "r_array" /\ exc' = exc
           ELSE xforms' = xforms /\ pc' = "r_array_raised" /\ exc' = got.exc
    /\ UNCHANGED <<filename, files, handles, log, idx, textVars, rasVars>>

\* FSLLinearTransformArray.to_ras on the series just built.
ArrayToRasCall ==
    /\ pc = "r_array"
    /\ LET got == ArrayToRas(xforms, moving, reference)
       IN  IF got.ok
           THEN out' = got.val /\ pc' = "r_array_out" /\ exc' = exc
           ELSE out' = out /\ pc' = "r_array_raised" /\ exc' = got.exc
    /\ UNCHANGED <<xforms, filename, files, handles, log, idx, textVars,
                   ras, moving, reference, adapted>>

InitRas ==
    /\ pc = "r_start"
    /\ xforms = <<>>
    /\ ras \in StackInputs
    /\ moving \in Images
    /\ reference \in Images
    /\ adapted = <<>> /\ out = <<>>
    /\ FileIdle /\ TextIdle

NextRas ==
    \/ AdaptCall
    \/ FromRasCall \/ ToRasCall
    \/ ArrayFromRasCall \/ ArrayToRasCall

SpecRas == InitRas /\ [][NextRas]_vars

(***************************************************************************)
(* Properties.                                                             *)
(***************************************************************************)
\* The names this call of to_filename opened for writing.
Opened == {log[k].name : k \in {j \in 1..Len(log) : log[j].op = "open"}}

\* The three-digit, zero-padded decimal numeral of i < 1000.
ThreeDigits(i) == <<i \div 100, (i \div 10) % 10, i % 10>>

\* C1: file split policy of to_filename(p). When the call returns, a series
\* of one transform has written exactly the file p, holding that
\* transform's to_string() text; a series of N > 1 transforms has written
\* exactly p.000 .. p.(N-1), three digits each, file p.i holding the text of
\* the transform at index i, and no file named p.
C1_FileSplitPolicy ==
    pc = "done" =>
        /\ Len(xforms) = 1 =>
              /\ Opened = {[base |-> filename, ext |-> <<>>]}
              /\ files[[base |-> filename, ext |-> <<>>]] = ToString(xforms[1])
        /\ Len(xforms) > 1 =>
              /\ Opened = {[base |-> filename, ext |-> ThreeDigits(i)] :
                              i \in 0..(Len(xforms) - 1)}
              /\ \A i \in 0..(Len(xforms) - 1) :
                    files[[base |-> filename, ext |-> ThreeDigits(i)]]
                        = ToString(xforms[i + 1])
              /\ [base |-> filename, ext |-> <<>>] \notin Opened

C1_Witness ==
    /\ pc = "done"
    /\ Len(xforms) = 3
    /\ xforms[1] # xforms[2] /\ xforms[2] # xforms[3]
    /\ Cardinality(Opened) = 3

\* C9: to_filename(p) on an empty series completes without raising, writes
\* no byte to p and opens no indexed file.
C9_EmptySeries ==
    Len(xforms) = 0 /\ pc \in {"call", "loop", "done", "raised", "single_open"} =>
        /\ pc \in {"call", "loop", "done"}
        /\ exc = ""
        /\ log = <<>>
        /\ handles = {}
        /\ files \in {EmptyFS, StaleFS(filename)}

C9_Witness == pc = "done" /\ Len(xforms) = 0 /\ log = <<>> /\ exc = ""

\* The index a file name of the loop carries.
IndexOf(name) == 100 * name.ext[1] + 10 * name.ext[2] + name.ext[3]

\* C10: the multi-file case of to_filename writes sequentially. At most one
\* handle is open; the k-th file opened is p.(k-1); a file is opened only
\* when every earlier file has been written once, with the text of the
\* element of its index, and closed; once a write
\* or an open has failed, the files before the failing index hold their
\* full text, no handle stays open when the exception leaves the call, and
\* no file of a greater index is opened.
C10_SequentialWrites ==
    (Len(xforms) # 1 /\ pc \in {"loop", "write", "close", "done", "raised"}) =>
        LET opens == SelectSeq(log, LAMBDA ev : ev.op \in {"open", "open_failed"})
        IN  /\ Cardinality(handles) <= 1
            /\ \A k \in 1..Len(opens) :
                  opens[k].name = [base |-> filename, ext |-> ThreeDigits(k - 1)]
            /\ \A k \in 1..Len(log) :
                  log[k].op \in {"open", "open_failed"} =>
                     /\ k = 1 \/ log[k - 1].op = "close"
                     /\ k % 3 = 1
                     /\ \A j \in 1..(k - 1) : log[j].op \in {"open", "write", "close"}
            /\ \A k \in 1..Len(log) :
                  log[k].op \in {"write", "write_failed"} =>
                     /\ k > 1 /\ log[k - 1] = [op |-> "open", name |-> log[k].name]
                     /\ handles = {log[k].name} \/ log[k + 1].op = "close"
                     /\ log[k].op = "write" =>
                           files[log[k].name] = ToString(xforms[IndexOf(log[k].name) + 1])
            /\ \A k \in 1..Len(log) :
                  log[k].op = "close" =>
                     k > 2 /\ log[k - 1].name = log[k].name
                           /\ log[k - 1].op \in {"write", "write_failed"}
            /\ exc # "" =>
                  /\ \A j \in 0..(idx - 1) :
                        /\ files[[base |-> filename, ext |-> ThreeDigits(j)]]
                              = ToString(xforms[j + 1])
                        /\ [base |-> filename, ext |-> ThreeDigits(j)] \notin handles
                  /\ \A k \in 1..Len(log) : IndexOf(log[k].name) <= idx
                  /\ \A n \in DOMAIN files : n.ext # <<>> => IndexOf(n) <= idx
                  /\ pc = "raised" => handles = {}
            /\ pc \in {"done", "raised"} => handles = {}

C10_Witness ==
    /\ pc = "raised"
    /\ Len(xforms) = 3
    /\ idx = 1
    /\ log[Len(log) - 1].op = "write_failed"
    /\ handles = {}

\* C5: single-transform text round trip. to_string is four lines of four
\* numbers separated by single spaces, each line ended by a line break; when
\* every entry prints exactly, from_string of that text succeeds and gives
\* back the same matrix, entry for entry.
C5_TextRoundTrip ==
    /\ pc \in {"t_single_str", "t_single_parsed"} =>
          /\ Len(text) = Dim * (2 * Dim)
          /\ \A r \in Rows, c \in Cols :
                /\ text[2 * Dim * (r - 1) + 2 * c - 1].k = "num"
                /\ text[2 * Dim * (r - 1) + 2 * c]
                      = IF c = Dim THEN NL ELSE SP
    /\ (pc = "t_single_parsed" /\ Representable(xforms[idx].parameters)) =>
          /\ parsed.ok
          /\ parsed.xforms = <<xforms[idx]>>

C5_Witness ==
    /\ pc = "t_single_parsed"
    /\ xforms[idx] = Xfm(Params(2))
    /\ parsed.ok /\ parsed.xforms = <<xforms[idx]>>

\* The lines of the series' blocks with one empty line between consecutive
\* blocks.
OneBlankLineBetween(xs) ==
    Join([k \in 1..Len(xs) |-> [r \in Rows |-> RowStr(xs[k].parameters[r])]],
         << <<>> >>)

\* C6: for N > 1, to_string of a series is the elements' four-line blocks
\* in index order with exactly one empty line between consecutive blocks.
C6_OneBlankLine ==
    (pc = "t_array_str" /\ Len(xforms) > 1) =>
        SplitLines(text) = OneBlankLineBetween(xforms)

\* The transforms the non-blank lines of a blob stand for, in order.
SolidPieces == SelectSeq(pieces.lines, LAMBDA p : p.kind \notin {"blank", "ws"})

\* C7: from_string (and from_fileobj) parses every non-blank line on its
\* own: it succeeds exactly when each such line holds a whole transform,
\* and then the series has one element per non-blank line, in line order.
C7_OnePerLine ==
    pc = "t_blob_parsed" =>
        /\ parsed.ok <=> \A k \in 1..Len(SolidPieces) : SolidPieces[k].kind # "row"
        /\ parsed.ok =>
              /\ Len(parsed.xforms) = Len(SolidPieces)
              /\ \A k \in 1..Len(SolidPieces) :
                    parsed.xforms[k] = Xfm(Params(SolidPieces[k].seed))

C7_Witness ==
    /\ pc = "t_blob_parsed"
    /\ parsed.ok
    /\ Len(parsed.xforms) = 2
    /\ parsed.xforms[1] # parsed.xforms[2]
    /\ Len(pieces.lines) = 3
    /\ pieces.lines[2].kind = "ws"
    /\ pieces.lines[3].kind = "padded"

\* C8: series text does not round-trip. For N >= 1, from_string of
\* to_string's text sees 4 * N units of four tokens each; it fails or gives
\* a series of another length, never the original series.
C8_NoSeriesRoundTrip ==
    (pc = "t_array_parsed" /\ Len(xforms) >= 1) =>
        /\ Len(KeptLines(text)) = Dim * Len(xforms)
        /\ \A k \in 1..Len(KeptLines(text)) : Len(SplitWs(KeptLines(text)[k])) = Dim
        /\ ~parsed.ok \/ Len(parsed.xforms) # Len(xforms)
        /\ ~(parsed.ok /\ parsed.xforms = xforms)

C8_Witness ==
    /\ pc = "t_array_parsed"
    /\ Len(xforms) = 2
    /\ Representable(xforms[1].parameters) /\ Representable(xforms[2].parameters)
    /\ ~parsed.ok

\* The square of the norm of column c of the top left 3x3 block.
ColNormSq(aff, c) ==
    aff.n[1][c] * aff.n[1][c] + aff.n[2][c] * aff.n[2][c] + aff.n[3][c] * aff.n[3][c]

\* C4: the branch rule of _fsl_aff_adapt. scale is diag(voxel sizes, 1);
\* swap is the identity when the determinant of the affine is <= 0 (zero
\* included); when it is > 0, swap is the identity but for entry (0, 0) = -1
\* and entry (0, 3) = (shape[0] - 1) * voxel_size[0]. For affine
\* diag(2, 2, 2, 1) and shape (10, 10, 10): (0, 0) = -1, (0, 3) = 18 and
\* scale = diag(2, 2, 2, 1).
C4_AdapterBranchRule ==
    pc = "r_adapted" =>
        LET img == adapted.image
            swp == adapted.res.swp
            spc == adapted.res.spc
        IN  /\ spc.d = 1 /\ swp.d = 1
            /\ \A r \in Rows, c \in Cols : r # c => spc.n[r][c] = 0
            /\ \A c \in 1..(Dim - 1) :
                  spc.n[c][c] >= 0 /\ spc.n[c][c] * spc.n[c][c] = ColNormSq(img.affine, c)
            /\ spc.n[Dim][Dim] = 1
            /\ IntDet(img.affine.n) <= 0 => swp = Eye
            /\ IntDet(img.affine.n) > 0 =>
                  /\ swp.n[1][1] = -1
                  /\ swp.n[1][4] = (img.shape[1] - 1) * spc.n[1][1]
                  /\ \A r \in Rows, c \in Cols :
                        <<r, c>> \notin {<<1, 1>>, <<1, 4>>} => swp.n[r][c] = Eye.n[r][c]
            /\ img = ImgLAS =>
                  /\ swp.n[1][1] = -1 /\ swp.n[1][4] = 18
                  /\ spc = IntMat(<< <<2, 0, 0, 0>>, <<0, 2, 0, 0>>,
                                     <<0, 0, 2, 0>>, <<0, 0, 0, 1>> >>)

C4_Witness ==
    /\ pc = "r_adapted"
    /\ IntDet(adapted.image.affine.n) = 0
    /\ adapted.res.swp = Eye

\* The inputs of a conversion are valid: the affine and both images'
\* affines are invertible.
ValidInputs(aff) ==
    ~Singular(aff) /\ ~Singular(moving.affine) /\ ~Singular(reference.affine)

\* C3: single-transform round trip. For an invertible affine A and images
\* with invertible affines, from_ras(A, moving, reference) succeeds and
\* stores the inverse of post . A . pre (the transpose of the inverse of its
\* axis transpose), and to_ras with the same images gives back A.
C3_SingleRoundTrip ==
    /\ pc \in {"r_single", "r_single_out"} =>
          Dot(xforms[1].parameters, Dot(Post(moving), Dot(ras[1], Pre(reference)))) = Eye
    /\ pc = "r_single_out" => out = ras[1]
    /\ pc = "r_single_raised" => ~ValidInputs(ras[1])

C3_Witness ==
    /\ pc = "r_single_out"
    /\ out = ras[1]
    /\ ras[1] # Eye
    /\ moving = ImgOblique /\ reference = ImgRAS

\* C2: series stacking order. For a stack of K >= 1 valid affines,
\* from_ras builds K transforms, element i from slab i alone, and to_ras on
\* that series returns K slabs with slab i equal to the i-th input.
C2_StackingOrder ==
    /\ pc \in {"r_array", "r_array_out"} =>
          /\ Len(xforms) = Len(ras)
          /\ \A i \in 1..Len(ras) :
                Dot(xforms[i].parameters,
                    Dot(Post(moving), Dot(ras[i], Pre(reference)))) = Eye
    /\ pc = "r_array_out" =>
          /\ Len(out) = Len(ras)
          /\ \A i \in 1..Len(ras) : out[i] = ras[i]
    /\ pc = "r_array_raised" =>
          Len(ras) = 0 \/ \E i \in 1..Len(ras) : ~ValidInputs(ras[i])

C2_Witness ==
    /\ pc = "r_array_out"
    /\ Len(ras) = 2
    /\ ras[1] # ras[2]
    /\ out = ras
    /\ moving # reference

====
